---- MODULE Spec2Model ----
(***************************************************************************)
(* The training notebook 3_Training_Neural_Networks.ipynb as a state       *)
(* machine: the statements of its code cells, one action per statement.    *)
(*                                                                         *)
(* The tensor library is a collaborator of the notebook.  It is            *)
(* represented by the smallest network that has every capability the       *)
(* cells use: one trainable bias, an absolute-error criterion, reverse     *)
(* differentiation that ACCUMULATES into the gradient slot, and plain SGD. *)
(* Numbers are fixed point, in thousandths: parameters, inputs, labels,    *)
(* outputs and losses are integers counting 1/1000, a gradient is a plain  *)
(* integer, and a learning rate counts 1/1000 (lr=0.003 is 3).             *)
(***************************************************************************)
EXTENDS Integers, Sequences, FiniteSets

VARIABLES
    pc,            \* the statement the kernel executes next
    epochs,        \* `epochs` of the solution cell
    trainloader,   \* the batches of one traversal, in dataset order
    set_to_none,   \* optimizer.zero_grad(): TRUE drops the slot, FALSE zeroes it
    params,        \* the model's parameter
    grad,          \* its gradient slot: <<>> is None, <<g>> is a tensor g
    lr,            \* learning rate of the optimizer bound to the model
    epoch_iter,    \* what range(epochs) has still to yield
    e,             \* loop variable of `for e in range(epochs)`
    dataiter,      \* what the iterator over trainloader has still to yield
    k,             \* number of batches this iterator has yielded
    batch,         \* images, labels of the current batch
    output,        \* `output` (logits in the first cells)
    loss,          \* `loss`
    running_loss,  \* `running_loss`
    reported,      \* the "Training loss" lines printed so far
    err,           \* the exception that ended the cell: <<>> is none
    trace,         \* history: the library calls made so far, in order
    img,           \* `img` of the prediction cell
    logps,         \* `logps` of the prediction cell
    params0,       \* history: the parameter when the model was built
    grad_kept      \* history: the slot, had the latest zero_grad been left out

vars == <<pc, epochs, trainloader, set_to_none, params, grad, lr, epoch_iter, e,
          dataiter, k, batch, output, loss, running_loss, reported, err, trace,
          img, logps, params0, grad_kept>>

----------------------------------------------------------------------------
(* Bounds of the model. *)
MaxEpochs == 3
MaxBatches == 2

(* Program constants, in thousandths. *)
LrTrain == 3
LrDemo == 10

(* The (images, labels) pairs the data set may hold. *)
DataPool == <<[images |-> 0, labels |-> 4], [images |-> 5, labels |-> 1]>>

(* A batch as the loader yields it: image tensors shaped [N,1,28,28]. *)
Batches ==
    { [images |-> DataPool[d].images, labels |-> DataPool[d].labels,
       shape |-> "NCHW"] : d \in 1..Len(DataPool) }

(* Initial values a freshly built layer may draw for its parameter. *)
InitParams == {0, 1}

None == <<>>
Some(v) == <<v>>

NoBatch == [images |-> 0, labels |-> 0, shape |-> "NCHW"]
Unbound == [val |-> 0, src |-> <<-1, 0>>]

----------------------------------------------------------------------------
(* Python and library semantics used by the cells. *)

Abs(x) == IF x < 0 THEN -x ELSE x
Sign(x) == IF x < 0 THEN -1 ELSE IF x > 0 THEN 1 ELSE 0

(* Variants of range: counting from 1, counting |n| values, and yielding
   once even for n <= 0. *)
RangeFromOne(n) == IF n <= 1 THEN <<>> ELSE [i \in 1..(n - 1) |-> i]
RangeOfMagnitude(n) == [i \in 1..Abs(n) |-> i - 1]
RangeAtLeastOnce(n) == IF n <= 0 THEN <<0>> ELSE [i \in 1..n |-> i - 1]

(* range(n): 0, 1, ..., n-1; empty for n <= 0. *)
Range(n) == IF n <= 0 THEN <<>> ELSE [i \in 1..n |-> i - 1]

(* The orders in which one traversal of a shuffling loader may yield s. *)
Shuffles(s) ==
    { [i \in 1..Len(s) |-> s[p[i]]] :
        p \in { q \in [1..Len(s) -> 1..Len(s)] :
                  \A i, j \in 1..Len(s) : q[i] = q[j] => i = j } }

(* images.view(images.shape[0], -1): one row of 784 values per example. *)
Flatten(b) == [b EXCEPT !.shape = "N784"]

(* What a call into the library may do: return, or raise (a shape mismatch,
   a label out of range, a loss without graph, an exhausted device). *)
Outcomes == {"return", "raise"}

(* images[0].view(1, 784): one example as a batch of one, flattened. The
   images of a batch are stood in for by one value, which its first example
   carries. *)
FirstExample(b) == [images |-> b.images, shape |-> "N784"]
NoImg == [images |-> 0, shape |-> "NCHW"]

(* model(images): always raises unless the input has 784 features per row. *)
ForwardOutcomes(b) == IF b.shape # "N784" THEN {"raise"} ELSE Outcomes
(* A forward pass whose result depends on how many calls came before it. *)
ForwardCounts(w, b) == w + b.images + Len(trace)

Forward(w, b) == w + b.images

(* criterion(output, labels). *)
Criterion(out, b) == Abs(out - b.labels)

(* loss.backward(): d loss / d parameter, ADDED to what the slot holds. *)
GradOf(out, b) == Sign(out - b.labels)

(* A backward pass that overwrites what the slot holds. *)
AccumulateOverwrites(g, d) == Some(d)

Accumulate(g, d) == IF g = None THEN Some(d) ELSE Some(g[1] + d)

(* A zero_grad that leaves the slot as it is. *)
ZeroGradKeeps(g) == g

(* A zero_grad that fills an unset slot with zeros. *)
ZeroGradAllocates(g) == Some(0)

(* optimizer.zero_grad(). *)
ZeroGrad(g) == IF set_to_none \/ g = None THEN None ELSE Some(0)

(* A step that leaves every parameter as it is. *)
SGDStepSkipsAll(w, g, rate) == w

(* A step with weight decay. *)
SGDStepDecays(w, g, rate) == IF g = None THEN w ELSE w - rate * (g[1] + w)

(* optimizer.step(): plain SGD; a parameter without gradient is skipped. *)
SGDStep(w, g, rate) == IF g = None THEN w ELSE w - rate * g[1]

(* One entry of the call history: the call, the loop position it was made
   at, the iteration that built the object it was made on, whether it
   returned, what it returned, and the images tensor bound at the call
   (`images` in the training cells, `img` in the prediction cell). *)
CallWith(op, on, ok, val, x) ==
    [op |-> op, e |-> e, k |-> k, on |-> on, ok |-> ok, val |-> val,
     arg |-> <<x.images, x.shape>>]
Call(op, on, ok, val) == CallWith(op, on, ok, val, batch)

(* An uncaught exception, as the traceback shows it. *)
Raised(exc, line) == Some([exc |-> exc, line |-> line])

----------------------------------------------------------------------------
SortedLoader(s) ==
    \A i \in 1..(Len(s) - 1) :
        s[i].images <= s[i + 1].images

Init ==
    /\ pc = "start"
    /\ epochs \in -1..MaxEpochs
    /\ trainloader \in { s \in UNION { [1..n -> Batches] : n \in 0..MaxBatches } :
                           SortedLoader(s) }
    /\ set_to_none \in BOOLEAN
    /\ params = 0
    /\ grad = None
    /\ lr = 0
    /\ epoch_iter = <<>>
    /\ e = -1
    /\ dataiter = <<>>
    /\ k = 0
    /\ batch = NoBatch
    /\ output = Unbound
    /\ loss = Unbound
    /\ running_loss = 0
    /\ reported = <<>>
    /\ err = None
    /\ trace = <<>>
    /\ img = NoImg
    /\ logps = Unbound
    /\ params0 = 0
    /\ grad_kept = None

----------------------------------------------------------------------------
(* The statements the cells share, each from pc `at` to pc `to`;           *)
(* `line` is the line of the notebook file a traceback would point at.     *)

(* dataiter = iter(trainloader); images, labels = next(dataiter) *)
FetchStmt(at, to, line) ==
    /\ pc = at
    /\ \E it \in Shuffles(trainloader) :
         IF it = <<>>
         THEN /\ err' = Raised("StopIteration", line)
              /\ pc' = "error"
              /\ dataiter' = it
              /\ UNCHANGED <<k, batch>>
         ELSE /\ batch' = Head(it)
              /\ dataiter' = Tail(it)
              /\ k' = 1
              /\ pc' = to
              /\ UNCHANGED err
    /\ UNCHANGED <<epochs, trainloader, img, logps, set_to_none, params, grad, grad_kept, lr, epoch_iter, e,
                   output, loss, running_loss, reported, trace, params0>>

(* images = images.view(images.shape[0], -1), images.resize_(64, 784) *)
ViewStmt(at, to) ==
    /\ pc = at
    /\ batch' = Flatten(batch)
    /\ pc' = to
    /\ UNCHANGED <<epochs, trainloader, img, logps, set_to_none, params, grad, grad_kept, lr, epoch_iter, e,
                   dataiter, k, output, loss, running_loss, reported, err, trace,
                   params0>>

(* optimizer.zero_grad() *)
ZeroGradStmt(at, to) ==
    /\ pc = at
    /\ grad' = ZeroGrad(grad)
    /\ grad_kept' = grad
    /\ trace' = Append(trace, Call("zero_grad", <<e, k>>, TRUE, 0))
    /\ pc' = to
    /\ UNCHANGED <<epochs, trainloader, img, logps, set_to_none, params, lr, epoch_iter, e,
                   dataiter, k, batch, output, loss, running_loss, reported, err,
                   params0>>

(* output = model(images) *)
ForwardStmt(at, to, line) ==
    /\ pc = at
    /\ \E o \in ForwardOutcomes(batch) :
         IF o = "raise"
         THEN /\ trace' = Append(trace, Call("forward", <<e, k>>, FALSE, 0))
              /\ err' = Raised("RuntimeError", line)
              /\ pc' = "error"
              /\ UNCHANGED output
         ELSE /\ trace' = Append(trace, Call("forward", <<e, k>>, TRUE,
                                             Forward(params, batch)))
              /\ output' = [val |-> Forward(params, batch), src |-> <<e, k>>]
              /\ pc' = to
              /\ UNCHANGED err
    /\ UNCHANGED <<epochs, trainloader, img, logps, set_to_none, params, grad, grad_kept, lr, epoch_iter, e,
                   dataiter, k, batch, loss, running_loss, reported, params0>>

(* loss = criterion(output, labels) *)
CriterionStmt(at, to, line) ==
    /\ pc = at
    /\ \E o \in Outcomes :
         IF o = "raise"
         THEN /\ trace' = Append(trace, Call("criterion", output.src, FALSE, 0))
              /\ err' = Raised("ValueError", line)
              /\ pc' = "error"
              /\ UNCHANGED loss
         ELSE /\ trace' = Append(trace, Call("criterion", output.src, TRUE,
                                             Criterion(output.val, batch)))
              /\ loss' = [val |-> Criterion(output.val, batch), src |-> output.src]
              /\ pc' = to
              /\ UNCHANGED err
    /\ UNCHANGED <<epochs, trainloader, img, logps, set_to_none, params, grad, grad_kept, lr, epoch_iter, e,
                   dataiter, k, batch, output, running_loss, reported, params0>>

(* loss.backward() *)
BackwardStmt(at, to, line) ==
    /\ pc = at
    /\ \E o \in Outcomes :
         IF o = "raise"
         THEN /\ trace' = Append(trace, Call("backward", loss.src, FALSE, 0))
              /\ err' = Raised("RuntimeError", line)
              /\ pc' = "error"
              /\ UNCHANGED <<grad, grad_kept>>
         ELSE /\ trace' = Append(trace, Call("backward", loss.src, TRUE,
                                             GradOf(output.val, batch)))
              /\ grad' = Accumulate(grad, GradOf(output.val, batch))
              /\ grad_kept' = Accumulate(grad_kept, GradOf(output.val, batch))
              /\ pc' = to
              /\ UNCHANGED err
    /\ UNCHANGED <<epochs, trainloader, img, logps, set_to_none, params, lr, epoch_iter, e,
                   dataiter, k, batch, output, loss, running_loss, reported, params0>>

(* optimizer.step() *)
StepStmt(at, to) ==
    /\ pc = at
    /\ params' = SGDStep(params, grad, lr)
    /\ trace' = Append(trace, Call("step", <<e, k>>, TRUE, SGDStep(params, grad, lr)))
    /\ pc' = to
    /\ UNCHANGED <<epochs, trainloader, img, logps, set_to_none, grad, grad_kept, lr, epoch_iter, e,
                   dataiter, k, batch, output, loss, running_loss, reported, err,
                   params0>>

----------------------------------------------------------------------------
(* The cells "Loss and Autograd together" and "Training the network!":    *)
(* a backward pass on a fresh model, then one training step.               *)

(* model = nn.Sequential(...); criterion = nn.NLLLoss() *)
DemoBuild ==
    /\ pc = "start"
    /\ \E w \in InitParams :
         /\ params' = w
         /\ params0' = w
    /\ grad' = None
    /\ grad_kept' = None
    /\ pc' = "c21_next"
    /\ UNCHANGED <<epochs, trainloader, img, logps, set_to_none, lr, epoch_iter, e, dataiter, k,
                   batch, output, loss, running_loss, reported, err, trace>>

DemoFetch1 == FetchStmt("c21_next", "c21_view", 374)
DemoView1 == ViewStmt("c21_view", "c21_forward")
DemoForward1 == ForwardStmt("c21_forward", "c21_criterion", 377)
DemoCriterion1 == CriterionStmt("c21_criterion", "c22_backward", 378)
DemoBackward1 == BackwardStmt("c22_backward", "c24_optim", 406)

(* optimizer = optim.SGD(model.parameters(), lr=0.01) *)
DemoOptim ==
    /\ pc = "c24_optim"
    /\ lr' = LrDemo
    /\ pc' = "c26_next"
    /\ UNCHANGED <<epochs, trainloader, img, logps, set_to_none, params, grad, grad_kept, epoch_iter, e,
                   dataiter, k, batch, output, loss, running_loss, reported, err,
                   trace, params0>>

DemoFetch2 == FetchStmt("c26_next", "c26_resize", 478)
DemoResize == ViewStmt("c26_resize", "c26_zero_grad")
DemoZeroGrad == ZeroGradStmt("c26_zero_grad", "c26_forward")
DemoForward2 == ForwardStmt("c26_forward", "c26_criterion", 485)
DemoCriterion2 == CriterionStmt("c26_criterion", "c26_backward", 486)
DemoBackward2 == BackwardStmt("c26_backward", "c27_step", 487)
DemoStep == StepStmt("c27_step", "demo_done")

----------------------------------------------------------------------------
(* The solution cell: the training loop. *)

(* model, criterion, optimizer = optim.SGD(..., lr=0.003), epochs *)
BuildTrain ==
    /\ pc = "start"
    /\ \E w \in InitParams :
         /\ params' = w
         /\ params0' = w
    /\ grad' = None
    /\ grad_kept' = None
    /\ lr' = LrTrain
    /\ epoch_iter' = Range(epochs)
    /\ pc' = "for_e"
    /\ UNCHANGED <<epochs, trainloader, img, logps, set_to_none, e, dataiter, k, batch, output,
                   loss, running_loss, reported, err, trace>>

(* The outer loop that waits for more once range(epochs) is exhausted. *)
ForEpochWaits ==
    /\ pc = "for_e"
    /\ IF epoch_iter = <<>>
       THEN /\ pc' = "for_e"
            /\ UNCHANGED <<e, epoch_iter>>
       ELSE /\ e' = Head(epoch_iter)
            /\ epoch_iter' = Tail(epoch_iter)
            /\ pc' = "reset"
    /\ UNCHANGED <<epochs, trainloader, img, logps, set_to_none, params, grad, grad_kept, lr, dataiter, k,
                   batch, output, loss, running_loss, reported, err, trace, params0>>

(* for e in range(epochs): *)
ForEpoch ==
    /\ pc = "for_e"
    /\ IF epoch_iter = <<>>
       THEN /\ pc' = "done"
            /\ UNCHANGED <<e, epoch_iter>>
       ELSE /\ e' = Head(epoch_iter)
            /\ epoch_iter' = Tail(epoch_iter)
            /\ pc' = "reset"
    /\ UNCHANGED <<epochs, trainloader, img, logps, set_to_none, params, grad, grad_kept, lr, dataiter, k,
                   batch, output, loss, running_loss, reported, err, trace, params0>>

(* The epoch that starts without resetting running_loss. *)
ResetLossKeeps ==
    /\ pc = "reset"
    /\ dataiter' \in Shuffles(trainloader)
    /\ k' = 0
    /\ pc' = "for_batch"
    /\ UNCHANGED <<epochs, trainloader, img, logps, set_to_none, params, grad, grad_kept, lr, epoch_iter, e,
                   batch, output, loss, running_loss, reported, err, trace, params0>>

(* The epoch that goes on with the iterator of the epoch before it. *)
ResetLossReusesIterator ==
    /\ pc = "reset"
    /\ running_loss' = 0
    /\ dataiter' \in (IF e = 0 THEN Shuffles(trainloader) ELSE {dataiter})
    /\ k' = 0
    /\ pc' = "for_batch"
    /\ UNCHANGED <<epochs, trainloader, img, logps, set_to_none, params, grad, grad_kept, lr, epoch_iter, e,
                   batch, output, loss, reported, err, trace, params0>>

(* running_loss = 0, and the iterator the inner for statement creates. *)
ResetLoss ==
    /\ pc = "reset"
    /\ running_loss' = 0
    /\ dataiter' \in Shuffles(trainloader)
    /\ k' = 0
    /\ pc' = "for_batch"
    /\ UNCHANGED <<epochs, trainloader, img, logps, set_to_none, params, grad, grad_kept, lr, epoch_iter, e,
                   batch, output, loss, reported, err, trace, params0>>

(* for images, labels in trainloader: ... else: *)
NextBatch ==
    /\ pc = "for_batch"
    /\ IF dataiter = <<>>
       THEN /\ pc' = "report"
            /\ UNCHANGED <<dataiter, k, batch>>
       ELSE /\ batch' = Head(dataiter)
            /\ dataiter' = Tail(dataiter)
            /\ k' = k + 1
            /\ pc' = "view"
    /\ UNCHANGED <<epochs, trainloader, img, logps, set_to_none, params, grad, grad_kept, lr, epoch_iter, e,
                   output, loss, running_loss, reported, err, trace, params0>>

(* The pass without its zero_grad statement. *)
ViewThenForward == ViewStmt("view", "forward")
View == ViewStmt("view", "zero_grad")
(* A zero_grad that zeroes the parameters along with their gradients. *)
TrainZeroGradZeroesParams ==
    /\ pc = "zero_grad"
    /\ grad' = ZeroGrad(grad)
    /\ grad_kept' = grad
    /\ params' = 0
    /\ trace' = Append(trace, Call("zero_grad", <<e, k>>, TRUE, 0))
    /\ pc' = "forward"
    /\ UNCHANGED <<epochs, trainloader, img, logps, set_to_none, lr, epoch_iter, e,
                   dataiter, k, batch, output, loss, running_loss, reported, err,
                   params0>>
TrainZeroGrad == ZeroGradStmt("zero_grad", "forward")
TrainForward == ForwardStmt("forward", "criterion", 568)
(* The criterion called on the line of the forward pass. *)
TrainCriterionSameLine == CriterionStmt("criterion", "backward", 568)
TrainCriterion == CriterionStmt("criterion", "backward", 569)
(* The backward pass whose failure is swallowed: the pass goes on. *)
TrainBackwardSwallows ==
    /\ pc = "backward"
    /\ \E o \in Outcomes :
         IF o = "raise"
         THEN /\ trace' = Append(trace, Call("backward", loss.src, FALSE, 0))
              /\ UNCHANGED <<grad, grad_kept>>
         ELSE /\ trace' = Append(trace, Call("backward", loss.src, TRUE,
                                             GradOf(output.val, batch)))
              /\ grad' = Accumulate(grad, GradOf(output.val, batch))
              /\ grad_kept' = Accumulate(grad_kept, GradOf(output.val, batch))
    /\ pc' = "step"
    /\ UNCHANGED <<epochs, trainloader, img, logps, set_to_none, params, lr, epoch_iter, e,
                   dataiter, k, batch, output, loss, running_loss, reported, err,
                   params0>>

(* The backward pass whose failure restores the parameter as built. *)
TrainBackwardRollsBack ==
    /\ pc = "backward"
    /\ \E o \in Outcomes :
         IF o = "raise"
         THEN /\ trace' = Append(trace, Call("backward", loss.src, FALSE, 0))
              /\ err' = Raised("RuntimeError", 570)
              /\ pc' = "error"
              /\ params' = params0
              /\ UNCHANGED <<grad, grad_kept>>
         ELSE /\ trace' = Append(trace, Call("backward", loss.src, TRUE,
                                             GradOf(output.val, batch)))
              /\ grad' = Accumulate(grad, GradOf(output.val, batch))
              /\ grad_kept' = Accumulate(grad_kept, GradOf(output.val, batch))
              /\ pc' = "step"
              /\ UNCHANGED <<err, params>>
    /\ UNCHANGED <<epochs, trainloader, img, logps, set_to_none, lr, epoch_iter, e,
                   dataiter, k, batch, output, loss, running_loss, reported, params0>>

TrainBackward == BackwardStmt("backward", "step", 570)
TrainStep == StepStmt("step", "accum")

(* The accumulation that evaluates the loss again, on the updated model. *)
AccumReevaluates ==
    /\ pc = "accum"
    /\ running_loss' = running_loss + Criterion(Forward(params, batch), batch)
    /\ trace' = Append(trace, Call("item", loss.src, TRUE,
                                   Criterion(Forward(params, batch), batch)))
    /\ pc' = "for_batch"
    /\ UNCHANGED <<epochs, trainloader, img, logps, set_to_none, params, grad, grad_kept, lr, epoch_iter, e,
                   dataiter, k, batch, output, loss, reported, err, params0>>

(* running_loss += loss.item() *)
Accum ==
    /\ pc = "accum"
    /\ running_loss' = running_loss + loss.val
    /\ trace' = Append(trace, Call("item", loss.src, TRUE, loss.val))
    /\ pc' = "for_batch"
    /\ UNCHANGED <<epochs, trainloader, img, logps, set_to_none, params, grad, grad_kept, lr, epoch_iter, e,
                   dataiter, k, batch, output, loss, reported, err, params0>>

(* The report that prints 0 instead of dividing by an empty loader. *)
ReportGuarded ==
    /\ pc = "report"
    /\ reported' = Append(reported,
                          IF Len(trainloader) = 0
                          THEN [num |-> 0, den |-> 1]
                          ELSE [num |-> running_loss, den |-> Len(trainloader)])
    /\ trace' = Append(trace, Call("print", <<e, k>>, TRUE, running_loss))
    /\ pc' = "for_e"
    /\ UNCHANGED <<epochs, trainloader, img, logps, set_to_none, params, grad, grad_kept, lr, epoch_iter, e,
                   dataiter, k, batch, output, loss, running_loss, err, params0>>

(* else: print(f"Training loss: {running_loss/len(trainloader)}") *)
Report ==
    /\ pc = "report"
    /\ IF Len(trainloader) = 0
       THEN /\ err' = Raised("ZeroDivisionError", 575)
            /\ pc' = "error"
            /\ UNCHANGED <<reported, trace>>
       ELSE /\ reported' = Append(reported, [num |-> running_loss,
                                             den |-> Len(trainloader)])
            /\ trace' = Append(trace, Call("print", <<e, k>>, TRUE, running_loss))
            /\ pc' = "for_e"
            /\ UNCHANGED err
    /\ UNCHANGED <<epochs, trainloader, img, logps, set_to_none, params, grad, grad_kept, lr, epoch_iter, e,
                   dataiter, k, batch, output, loss, running_loss, params0>>

----------------------------------------------------------------------------
(* The prediction cell, run once the network is trained.                   *)

(* dataiter = iter(trainloader); images, labels = next(dataiter) *)
InferFetch ==
    /\ pc = "done"
    /\ \E it \in Shuffles(trainloader) :
         IF it = <<>>
         THEN /\ err' = Raised("StopIteration", 606)
              /\ pc' = "infer_error"
              /\ dataiter' = it
              /\ UNCHANGED <<k, batch>>
         ELSE /\ batch' = Head(it)
              /\ dataiter' = Tail(it)
              /\ k' = 1
              /\ pc' = "infer_view"
              /\ UNCHANGED err
    /\ UNCHANGED <<epochs, trainloader, img, logps, set_to_none, params, grad,
                   grad_kept, lr, epoch_iter, e, output, loss, running_loss,
                   reported, trace, params0>>

(* img = images[0].view(1, 784) *)
InferView ==
    /\ pc = "infer_view"
    /\ img' = FirstExample(batch)
    /\ pc' = "infer_forward"
    /\ UNCHANGED <<epochs, trainloader, logps, set_to_none, params, grad,
                   grad_kept, lr, epoch_iter, e, dataiter, k, batch, output,
                   loss, running_loss, reported, err, trace, params0>>

(* with torch.no_grad(): logps = model(img) *)
InferForward ==
    /\ pc = "infer_forward"
    /\ \E o \in ForwardOutcomes(img) :
         IF o = "raise"
         THEN /\ trace' = Append(trace, CallWith("forward", <<e, k>>, FALSE, 0, img))
              /\ err' = Raised("RuntimeError", 611)
              /\ pc' = "infer_error"
              /\ UNCHANGED logps
         ELSE /\ trace' = Append(trace, CallWith("forward", <<e, k>>, TRUE,
                                                 Forward(params, img), img))
              /\ logps' = [val |-> Forward(params, img), src |-> <<e, k>>]
              /\ pc' = "infer_done"
              /\ UNCHANGED err
    /\ UNCHANGED <<epochs, trainloader, img, set_to_none, params, grad,
                   grad_kept, lr, epoch_iter, e, dataiter, k, batch, output,
                   loss, running_loss, reported, params0>>

InferPcs == {"infer_view", "infer_forward", "infer_done", "infer_error"}

----------------------------------------------------------------------------
Next ==
    \/ DemoBuild
    \/ DemoFetch1
    \/ DemoView1
    \/ DemoForward1
    \/ DemoCriterion1
    \/ DemoBackward1
    \/ DemoOptim
    \/ DemoFetch2
    \/ DemoResize
    \/ DemoZeroGrad
    \/ DemoForward2
    \/ DemoCriterion2
    \/ DemoBackward2
    \/ DemoStep
    \/ BuildTrain
    \/ ForEpoch
    \/ ResetLoss
    \/ NextBatch
    \/ View
    \/ TrainZeroGrad
    \/ TrainForward
    \/ TrainCriterion
    \/ TrainBackward
    \/ TrainStep
    \/ Accum
    \/ Report
    \/ InferFetch
    \/ InferView
    \/ InferForward

Spec == Init /\ [][Next]_vars

(* The kernel runs the statement that is next for as long as there is one. *)
FairSpec == Spec /\ WF_vars(Next)

----------------------------------------------------------------------------
(* Reading the call history. *)

(* The solution cell has built its optimizer. *)
(* The solution cell is the one that runs, or has just run. *)
Training == lr = LrTrain /\ pc \notin InferPcs

Last(s) == s[Len(s)]
Indices(op) == { i \in 1..Len(trace) : trace[i].op = op }

(* The call that may follow call i of the history, and the loop position
   it is made at. *)
FollowsInOrder(i) ==
    LET c == trace[i]
        d == trace[i + 1]
    IN  /\ c.ok
        /\ CASE c.op = "zero_grad" -> d.op = "forward" /\ <<d.e, d.k>> = <<c.e, c.k>>
             [] c.op = "forward"   -> d.op = "criterion" /\ <<d.e, d.k>> = <<c.e, c.k>>
             [] c.op = "criterion" -> d.op = "backward" /\ <<d.e, d.k>> = <<c.e, c.k>>
             [] c.op = "backward"  -> d.op = "step" /\ <<d.e, d.k>> = <<c.e, c.k>>
             [] c.op = "step"      -> d.op = "item" /\ <<d.e, d.k>> = <<c.e, c.k>>
             [] c.op = "item"      -> \/ d.op = "zero_grad" /\ <<d.e, d.k>> = <<c.e, c.k + 1>>
                                      \/ d.op = "print" /\ <<d.e, d.k>> = <<c.e, c.k>>
             [] c.op = "print"     -> d.op = "zero_grad" /\ <<d.e, d.k>> = <<c.e + 1, 1>>

(* C1: in the training loop the calls zero_grad, forward, criterion,
   backward, step of a batch are made in this order and at the same loop
   position; criterion and backward are made on the output and the loss
   built in that same iteration; and the pass of the next batch begins
   (with zero_grad) only after step, and the loss read-out, of this one. *)
C1_PassOrder ==
    Training =>
        /\ trace # <<>> => trace[1].op = "zero_grad" /\ <<trace[1].e, trace[1].k>> = <<0, 1>>
        /\ \A i \in 1..(Len(trace) - 1) : FollowsInOrder(i)
        /\ \A i \in 1..Len(trace) : trace[i].on = <<trace[i].e, trace[i].k>>

(* Two batches of one epoch have completed their passes. *)
C1_Witness ==
    /\ Training
    /\ \E i \in Indices("step") : trace[i].k = 2 /\ trace[i].e = 1

(* C2: the gradient an optimizer step is about to consume is the gradient of
   the current batch alone, in the loop and in the single step of the
   demonstration; and the backward pass that feeds a step comes after a
   zero_grad with no other backward pass in between. *)
C2_OneBatchGradient ==
    /\ pc \in {"step", "c27_step"} => grad = Some(GradOf(output.val, batch))
    /\ \A i \in Indices("step") :
         \E z \in Indices("zero_grad"), j \in Indices("backward") :
            /\ z < j
            /\ j < i
            /\ \A b \in Indices("backward") : b < i => b <= z \/ b = j

(* The demonstration is about to step after its second backward pass, the
   first having left a gradient. *)
C2_Witness ==
    /\ pc = "c27_step"
    /\ Cardinality(Indices("backward")) = 2
    /\ \A j \in Indices("backward") : trace[j].val # 0

RECURSIVE SumVals(_, _, _)
(* The sum of what the calls `op` of epoch x returned, among the first n
   calls of the history. *)
SumVals(op, x, n) ==
    IF n = 0 THEN 0
    ELSE SumVals(op, x, n - 1) +
         (IF trace[n].op = op /\ trace[n].e = x /\ trace[n].ok THEN trace[n].val ELSE 0)

(* The batches the loop was handed in epoch x. *)
BatchesOf(x) == { trace[j].k : j \in { i \in 1..Len(trace) : trace[i].e = x } }

(* C3: with epochs >= 1 and at least one batch, one mean is printed per
   epoch, in epoch order: the n-th printed line belongs to epoch n-1, comes
   after every step of that epoch and before every zero_grad of a later one,
   and a finished run has printed exactly `epochs` lines. *)
C3_OneMeanPerEpoch ==
    (Training /\ epochs >= 1 /\ Len(trainloader) >= 1) =>
        /\ Len(reported) = Cardinality(Indices("print"))
        /\ \A i \in Indices("print") :
             /\ trace[i].e = Cardinality({ j \in Indices("print") : j < i })
             /\ \E j \in Indices("step") : trace[j].e = trace[i].e
             /\ \A j \in Indices("step") : trace[j].e <= trace[i].e => j < i
             /\ \A j \in Indices("zero_grad") : trace[j].e > trace[i].e => j > i
        /\ pc = "done" => Len(reported) = epochs

(* A run of two epochs over two batches has finished. *)
C3_Witness ==
    /\ Training
    /\ pc = "done"
    /\ epochs = 2
    /\ Len(trainloader) = 2

(* C4: the line printed for an epoch is the sum of the losses the criterion
   returned for the batches of that epoch alone, over the number of batches
   the loop was handed in that epoch. *)
C4_MeanOfEpoch ==
    Training =>
        \A i \in Indices("print") :
            reported[trace[i].e + 1] =
                [num |-> SumVals("criterion", trace[i].e, Len(trace)),
                 den |-> Cardinality(BatchesOf(trace[i].e))]

(* A second epoch has printed its mean after a first epoch with a loss. *)
C4_Witness ==
    /\ Training
    /\ Len(reported) = 2
    /\ reported[1].num > 0
    /\ reported[2].num > 0
    /\ Len(trainloader) = 2

(* C5: with epochs <= 0 the cell runs to its end: range(epochs) has nothing
   to yield, so the only statement left is the end of the cell; nothing is
   printed and nothing is raised, whatever the loader holds. *)
C5_NoEpochsNoOutput ==
    (Training /\ epochs <= 0) =>
        /\ pc \in {"for_e", "done"}
        /\ epoch_iter = <<>>
        /\ reported = <<>>
        /\ err = None

(* The cell has ended with a negative epochs and an empty loader. *)
C5_Witness ==
    /\ Training
    /\ pc = "done"
    /\ epochs < 0
    /\ trainloader = <<>>

(* C6: with epochs = 0 no library call is made, the loader is never
   iterated, and parameter and gradient slot stay as the model was built. *)
C6_ZeroEpochsNoMutation ==
    (Training /\ epochs = 0) =>
        /\ trace = <<>>
        /\ dataiter = <<>>
        /\ k = 0
        /\ batch = NoBatch
        /\ params = params0
        /\ grad = None

(* The cell has ended with epochs = 0 and a loader that holds batches. *)
C6_Witness ==
    /\ Training
    /\ pc = "done"
    /\ epochs = 0
    /\ Len(trainloader) = 2

(* C7: with epochs >= 1 and a loader without batches, the division of the
   first epoch's report raises ZeroDivisionError: nothing is printed, the cell
   never ends normally, no later epoch is started, nothing runs after the
   error, and no call was made on the model. *)
C7_EmptyEpochFatal ==
    (Training /\ epochs >= 1 /\ trainloader = <<>>) =>
        /\ reported = <<>>
        /\ trace = <<>>
        /\ params = params0
        /\ grad = None
        /\ pc # "done"
        /\ err # None => pc = "error" /\ err = Raised("ZeroDivisionError", 575)
        /\ pc = "error" =>
              /\ err # None
              /\ e = 0
              /\ epoch_iter = Tail(Range(epochs))
              /\ ~ENABLED Next

(* The division has failed in the first of two epochs. *)
C7_Witness ==
    /\ Training
    /\ pc = "error"
    /\ epochs = 2
    /\ trainloader = <<>>

(* The calls of the history that raised. *)
Failed == { i \in 1..Len(trace) : ~trace[i].ok }

(* C8: a call of the pass that raises ends the cell: it is the last call of
   the history and was made once at its loop position, no step and no loss
   read-out follows for that batch, nothing runs after the error, and no mean
   is printed for the epoch that was under way. *)
C8_FailureFatal ==
    Training =>
        /\ \A i \in Failed :
             /\ i = Len(trace)
             /\ pc = "error"
             /\ trace[i].op \in {"forward", "criterion", "backward"}
             /\ Cardinality({ j \in Indices(trace[i].op) :
                                <<trace[j].e, trace[j].k>> = <<trace[i].e, trace[i].k>> }) = 1
             /\ ~\E j \in Indices("step") \cup Indices("item") :
                    <<trace[j].e, trace[j].k>> = <<trace[i].e, trace[i].k>>
             /\ Len(reported) = trace[i].e
        /\ pc = "error" => ~ENABLED Next

(* The backward pass of the second batch of an epoch has raised. *)
C8_Witness ==
    /\ Training
    /\ pc = "error"
    /\ trace # <<>>
    /\ Last(trace).op = "backward"
    /\ ~Last(trace).ok
    /\ k = 2
    /\ e = 1

(* The stage a traceback line of the training pass names. *)
StageOfLine(line) ==
    CASE line = 568 -> "forward"
      [] line = 569 -> "criterion"
      [] line = 570 -> "backward"
      [] OTHER -> "none"

(* C9: the exception that ends the training pass is the first one raised,
   and its traceback line names the stage whose call raised it: the only call
   of the history that raised is the last one, it is the call of that stage,
   and it was made on the batch the loop holds. *)
C9_ErrorNamesStage ==
    (Training /\ err # None /\ err[1].line # 575) =>
        /\ Failed = {Len(trace)}
        /\ StageOfLine(err[1].line) = Last(trace).op
        /\ <<Last(trace).e, Last(trace).k>> = <<e, k>>

(* The criterion has raised in the training pass. *)
C9_Witness ==
    /\ Training
    /\ err # None
    /\ err[1].line = 569
    /\ e = 1

(* The parameter after the latest step of the history, or as built. *)
ParamsAfterLastStep ==
    IF Indices("step") = {} THEN params0
    ELSE trace[CHOOSE i \in Indices("step") : \A j \in Indices("step") : j <= i].val

(* C10: when forward, criterion or backward raises on a batch, the parameter
   is what the step of the batch before it left (the parameter as built when
   the failing batch is the first of the run): one step was made for each
   batch before the failing one and none for it. *)
C10_ParamsOfLastCompletedBatch ==
    (Training /\ Failed # {}) =>
        /\ params = ParamsAfterLastStep
        /\ Cardinality(Indices("step")) = e * Len(trainloader) + k - 1
        /\ \A j \in Indices("step") : <<trace[j].e, trace[j].k>> # <<e, k>>

(* The backward pass of a second batch has raised after a step that moved
   the parameter. *)
C10_Witness ==
    /\ Training
    /\ Failed # {}
    /\ k = 2
    /\ e = 1
    /\ Last(trace).op = "backward"
    /\ params # params0

----------------------------------------------------------------------------
(* The backward passes of the history that returned, and the latest two.  *)
Backwards == { i \in Indices("backward") : trace[i].ok }
LastBackward == CHOOSE i \in Backwards : \A j \in Backwards : j <= i
BackwardBefore == CHOOSE i \in Backwards \ {LastBackward} :
                     \A j \in Backwards \ {LastBackward} : j <= i

AtStep == pc \in {"step", "c27_step"}

(* C11: leaving zero_grad out is observable. When the backward passes of
   two consecutive batches both gave a nonzero gradient, the slot holds the
   gradient of the second batch alone, the slot of the run without the
   zero_grad in between holds the sum of the two, and the step about to be
   made moves the parameter to a different value in the two runs. *)
C11_SkippedZeroGradObservable ==
    (AtStep /\ Cardinality(Backwards) >= 2) =>
        LET g1 == trace[BackwardBefore].val
            g2 == trace[LastBackward].val
        IN  (g1 # 0 /\ g2 # 0) =>
                /\ grad = Some(g2)
                /\ grad_kept = Some(g1 + g2)
                /\ SGDStep(params, grad_kept, lr) = params - lr * (g1 + g2)
                /\ SGDStep(params, grad_kept, lr) # SGDStep(params, grad, lr)

(* The second batch of an epoch is about to be stepped on, and both its
   gradient and the one of the batch before it are nonzero. *)
C11_Witness ==
    /\ Training
    /\ pc = "step"
    /\ k = 2
    /\ Cardinality(Backwards) >= 2
    /\ trace[BackwardBefore].val # 0
    /\ trace[LastBackward].val # 0
    /\ grad_kept # grad

(* C12: every step made with a populated, nonzero gradient changes the
   parameter, in the training loop and in the single training step of the
   demonstration. *)
C12_StepMutates ==
    [][(AtStep /\ grad # None /\ grad[1] # 0) => params' # params]_vars

(* A step of the second epoch has been made with a nonzero gradient. *)
C12_Witness ==
    /\ pc = "accum"
    /\ e = 1
    /\ Last(trace).op = "step"
    /\ grad # None
    /\ grad[1] # 0
    /\ params # params0

(* The parameter the latest step of the history started from. *)
LastStep == CHOOSE i \in Indices("step") : \A j \in Indices("step") : j <= i
PrevParams ==
    LET before == Indices("step") \ {LastStep}
    IN  IF before = {} THEN params0
        ELSE trace[CHOOSE i \in before : \A j \in before : j <= i].val

(* C13: right after one training step the parameter is W - lr * grad, where
   W is the parameter the step started from, grad the gradient of the loss
   of the batch at W, and lr the rate the optimizer was built with (0.003 in
   the solution cell, 0.01 in the demonstration); nothing else enters. *)
C13_PlainGradientStep ==
    (pc \in {"accum", "demo_done"}) =>
        LET W == PrevParams
            rate == IF pc = "accum" THEN LrTrain ELSE LrDemo
        IN  params = W - rate * GradOf(Forward(W, batch), batch)

(* A step has moved a parameter that an earlier step had already moved. *)
C13_Witness ==
    /\ pc = "accum"
    /\ Cardinality(Indices("step")) >= 2
    /\ PrevParams # params0
    /\ PrevParams # 0
    /\ params # PrevParams

(* The forward passes of the history that returned, and the parameter each
   of them ran on: what the latest step before it left, or the parameter as
   built. *)
Forwards == { i \in Indices("forward") : trace[i].ok }
ParamsAt(i) ==
    LET before == { j \in Indices("step") : j < i }
    IN  IF before = {} THEN params0
        ELSE trace[CHOOSE j \in before : \A m \in before : m <= j].val

AtForward == pc \in {"c21_forward", "c26_forward", "forward", "infer_forward"}

(* C14: the forward pass is read-only. Two forward passes on the same input
   return the same output when no step was made between them (more
   generally, whenever the parameter is the same at both), and a forward
   pass, with or without torch.no_grad(), leaves the parameter, the
   gradient slot and the optimizer as they are. *)
C14_ForwardReadOnly ==
    /\ [](\A i \in Forwards : \A j \in Forwards :
            (trace[i].arg = trace[j].arg /\ ParamsAt(i) = ParamsAt(j)) =>
                trace[i].val = trace[j].val)
    /\ [][AtForward => /\ params' = params
                       /\ grad' = grad
                       /\ lr' = lr
                       /\ set_to_none' = set_to_none]_vars

(* The two forward passes of the demonstration cells have run on the same
   batch, with a backward pass and a zero_grad but no step between them. *)
C14_Witness ==
    /\ pc = "c26_criterion"
    /\ Cardinality(Forwards) = 2
    /\ \A i \in Forwards : trace[i].arg = <<5, "N784">>
    /\ grad = Some(0)

(* The loop position of the batch before the current one. *)
PrevBatch == IF k > 1 THEN <<e, k - 1>> ELSE <<e - 1, Len(trainloader)>>

(* C16: in the training loop only optimizer.step() writes the parameter:
   every other statement of the loop leaves it as it is, so the output of the
   forward pass of a batch is computed from the parameter that the step of
   the batch before it wrote (the parameter as built, for the first batch of
   the run). *)
C16_OnlyStepWritesParams ==
    /\ [][(Training /\ params' # params) => pc = "step"]_vars
    /\ []((Training /\ pc = "criterion") =>
            /\ params = ParamsAfterLastStep
            /\ output.val = Forward(ParamsAfterLastStep, batch)
            /\ IF Indices("step") = {}
               THEN <<e, k>> = <<0, 1>>
               ELSE <<trace[LastStep].e, trace[LastStep].k>> = PrevBatch)

(* The forward pass of the first batch of the second epoch has read the
   parameter that the last step of the first epoch wrote. *)
C16_Witness ==
    /\ Training
    /\ pc = "criterion"
    /\ <<e, k>> = <<1, 1>>
    /\ Len(trainloader) = 2
    /\ params # params0
    /\ output.val = Forward(params, batch)

(* The calls of a training pass, and the calls `op` made at batch n of
   epoch x. *)
PassOps == {"zero_grad", "forward", "criterion", "backward", "step"}
CallsAt(op, x, n) == { i \in Indices(op) : trace[i].e = x /\ trace[i].k = n }

(* The images the forward passes of epoch x were given, in order. *)
EpochImages(x) ==
    [n \in 1..Len(trainloader) |-> trace[CHOOSE i \in CallsAt("forward", x, n) : TRUE].arg[1]]

(* The orders one traversal of trainloader can yield its images in. *)
Traversals ==
    { [n \in 1..Len(trainloader) |-> s[n].images] : s \in Shuffles(trainloader) }

(* C17: a run that ends without failure has made, in each of its
   max(epochs, 0) epochs, one zero_grad, forward, criterion, backward and
   step call for each of the N batches of trainloader and none besides
   (E * N calls of each kind), and the images forwarded in an epoch are one
   traversal of the whole of trainloader, started anew in every epoch. *)
C17_EpochIsFullTraversal ==
    (Training /\ pc = "done") =>
        LET E == IF epochs > 0 THEN epochs ELSE 0
            N == Len(trainloader)
        IN  /\ \A op \in PassOps :
                 /\ Cardinality(Indices(op)) = E * N
                 /\ \A i \in Indices(op) : trace[i].ok
                 /\ \A x \in 0..(E - 1) : \A n \in 1..N :
                      Cardinality(CallsAt(op, x, n)) = 1
            /\ \A x \in 0..(E - 1) : EpochImages(x) \in Traversals

(* A run of three epochs over two different batches has finished, and two
   of its epochs went through the batches in different orders. *)
C17_Witness ==
    /\ Training
    /\ pc = "done"
    /\ epochs = 3
    /\ Len(trainloader) = 2
    /\ trainloader[1] # trainloader[2]
    /\ Cardinality(Indices("step")) = 6
    /\ EpochImages(0) # EpochImages(1)

(* The statements at which the gradient slot may change, and those that a
   backward pass has just returned to. *)
SlotWriters == {"c22_backward", "c26_zero_grad", "c26_backward", "zero_grad", "backward"}
AfterBackward == {"c24_optim", "c27_step", "step"}

(* C18: the gradient slot of a model is None from its construction until
   the first backward pass that returns, and holds a gradient right after
   every backward pass that returns; it changes only at a zero_grad or a
   backward statement. *)
C18_GradientLifecycle ==
    /\ [](Backwards = {} => grad = None)
    /\ [](pc \in AfterBackward => grad # None /\ Backwards # {})
    /\ [][grad' # grad => pc \in SlotWriters]_vars

(* The first backward pass of the demonstration has filled the slot, which
   was None before it, with a nonzero gradient. *)
C18_Witness ==
    /\ pc = "c24_optim"
    /\ Cardinality(Backwards) = 1
    /\ Indices("zero_grad") = {}
    /\ grad # None
    /\ grad[1] # 0

(* C19: the value added to running_loss for a batch is read right after the
   step of that batch and is the loss its criterion call returned, computed
   from the output of its forward pass on the parameter as it was before
   that step; it is not evaluated again on the updated parameter. *)
C19_AccumulatesPreUpdateLoss ==
    Training =>
        /\ \A i \in Indices("item") :
             /\ i > 1
             /\ trace[i - 1].op = "step"
             /\ <<trace[i - 1].e, trace[i - 1].k>> = <<trace[i].e, trace[i].k>>
             /\ \E c \in CallsAt("criterion", trace[i].e, trace[i].k) :
                  /\ c < i - 1
                  /\ trace[c].ok
                  /\ trace[i].val = trace[c].val
             /\ \E f \in CallsAt("forward", trace[i].e, trace[i].k) :
                  /\ f < i - 1
                  /\ trace[f].val = Forward(ParamsAt(i - 1), [images |-> trace[f].arg[1]])
        /\ (pc = "for_batch" /\ trace # <<>> /\ Last(trace).op = "item") =>
             Last(trace).val = Criterion(Forward(PrevParams, batch), batch)

(* A loss has been added to running_loss that is not the loss of the
   batch on the parameter its step has just written. *)
C19_Witness ==
    /\ Training
    /\ pc = "for_batch"
    /\ trace # <<>>
    /\ Last(trace).op = "item"
    /\ <<e, k>> = <<1, 2>>
    /\ running_loss > Last(trace).val
    /\ Last(trace).val # Criterion(Forward(params, batch), batch)

(* C20: the solution cell terminates for every loader and every value of
   epochs the model draws: once it has started it reaches the end of the
   outer loop or stops on an uncaught exception. It ends normally only with
   range(epochs) exhausted, no exception, and, for epochs >= 1, right after
   the report of epoch epochs - 1; and the epoch it is in is never one
   beyond epochs - 1. *)
C20_Terminates ==
    /\ Training ~> (pc \in {"done", "error"})
    /\ [](Training => (e = -1 \/ (0 <= e /\ e < epochs)))
    /\ []((Training /\ pc = "done") =>
            /\ epoch_iter = <<>>
            /\ err = None
            /\ IF epochs >= 1
               THEN Last(trace).op = "print" /\ Last(trace).e = epochs - 1
               ELSE trace = <<>>)
    /\ []((Training /\ pc = "error") => err # None /\ ~ENABLED Next)

(* A run of the largest number of epochs over the longest loader has ended
   normally. *)
C20_Witness ==
    /\ pc = "done"
    /\ lr = LrTrain
    /\ epochs = MaxEpochs
    /\ Len(trainloader) = MaxBatches
    /\ e = MaxEpochs - 1
    /\ Len(reported) = MaxEpochs

====
